---------------------------- MODULE Spec2Model ----------------------------
(***************************************************************************)
(* A model of the Psema entity-component-system runtime: World.js (World,  *)
(* ComponentType, Query, System, Entity) and MapOfSets.js.                 *)
(*                                                                         *)
(* Strings that the code sorts, joins and splits (component names, query   *)
(* keys) are tuples of one-character strings.  Priorities are IEEE doubles *)
(* in the code; the model keeps them as exact integers counted in          *)
(* PriorityUnit-ths of 0.05, so that 0.1 and every midpoint are exact.     *)
(* The host of start() and stop() is part of the model: its clock, its     *)
(* interval timers and frame requests, and its running one callback to     *)
(* completion before the next; times are whole milliseconds and quotients  *)
(* of times are pairs.                                                     *)
(***************************************************************************)
EXTENDS Integers, Sequences, FiniteSets, TLC

\* ------------------------------------------------------------------ bounds
MaxEntities == 2        \* Entity objects constructed
MaxQueries == 2         \* Query objects constructed by callers
MaxQuerySystems == 2    \* System objects constructed with a query
MaxSystems == 3         \* System objects constructed in all
MaxDriverSystems == 2   \* System objects constructed with callbacks
MaxStarts == 2          \* calls of world.start()
MaxClock == 6           \* milliseconds that pass

Ents == 1..MaxEntities

\* ------------------------------------------------------------------ errors
\* What a call throws, by message: the errors World.js throws itself and the
\* three TypeErrors the engine raises for it.
ErrEntityName == "TypeError: name must be non empty string."
ErrComponentType == "TypeError: componentType must be instance of ComponentType."
ErrPriority == "Error: Check your system priority, because something is wrong."
ErrNotAFunction == "TypeError: world.entitiesByComponentType is not a function"
ErrClearSet == "TypeError: world.queries.clearSet is not a function"
ErrUndefinedValue == "TypeError: Cannot read properties of undefined (reading 'queries')"
ErrTypeName == "TypeError: name must be string."
ErrTypeExists == "TypeError: Component type already exists."
ErrTypeComma == "Error: Illegal character ',' in Component name."
ErrTypeDefault == "Error: Default value can't be object. Make it a constructor function instead."
Thrown == {ErrEntityName, ErrComponentType, ErrPriority, ErrNotAFunction, ErrClearSet,
           ErrUndefinedValue, ErrTypeName, ErrTypeExists, ErrTypeComma, ErrTypeDefault}

\* ----------------------------------------------------------------- strings
\* UTF-16 code units of the characters the model's strings use
\* (Array.prototype.sort without a comparator orders by code unit).
CharCode(c) ==
  CASE c = "," -> 44
    [] c = "a" -> 97
    [] c = "b" -> 98

\* s < t as JavaScript compares strings.
RECURSIVE StrLess(_, _)
StrLess(s, t) ==
  IF t = <<>> THEN FALSE
  ELSE IF s = <<>> THEN TRUE
  ELSE IF CharCode(Head(s)) # CharCode(Head(t))
       THEN CharCode(Head(s)) < CharCode(Head(t))
  ELSE StrLess(Tail(s), Tail(t))

\* Insert string s into the sorted list l, after the elements equal to it.
RECURSIVE SortInsert(_, _)
SortInsert(l, s) ==
  IF l = <<>> THEN <<s>>
  ELSE IF StrLess(s, Head(l)) THEN <<s>> \o l
  ELSE <<Head(l)>> \o SortInsert(Tail(l), s)

\* key.sort()
RECURSIVE Sort(_)
Sort(l) == IF l = <<>> THEN <<>> ELSE SortInsert(Sort(SubSeq(l, 1, Len(l) - 1)), l[Len(l)])

\* l.join(",")
RECURSIVE Join(_)
Join(l) ==
  IF l = <<>> THEN <<>>
  ELSE IF Len(l) = 1 THEN l[1]
  ELSE l[1] \o <<",">> \o Join(Tail(l))

\* s.split(","): the list of the pieces between commas (one piece for "").
RECURSIVE SplitFrom(_, _)
SplitFrom(s, piece) ==
  IF s = <<>> THEN <<piece>>
  ELSE IF Head(s) = "," THEN <<piece>> \o SplitFrom(Tail(s), <<>>)
  ELSE SplitFrom(Tail(s), Append(piece, Head(s)))

Split(s) == SplitFrom(s, <<>>)

\* ---------------------------------------------------------- component types
\* The component types the world has defined: ComponentType objects by
\* identity, each with its name and default value.
Tag == "tag"              \* ComponentType.tag, the no-default sentinel
Factories == {"mkObj"}    \* values for which typeof value === "function"
Call(f) == "obj"          \* what the factory returns

CTypes == {"A", "B"}

TypeName(t) ==
  CASE t = "A" -> <<"b">>
    [] t = "B" -> <<"a", "b">>

DefaultValue(t) ==
  CASE t = "A" -> Tag        \* new ComponentType("b")
    [] t = "B" -> "mkObj"    \* new ComponentType("ab", () => ({...}))

\* The names given to new ComponentType(name, defaultValue), as strings of
\* characters, and the own properties the class object has before any type is
\* defined: Function's length, name and prototype, and static tag.
Name_length == <<"l", "e", "n", "g", "t", "h">>
Name_name == <<"n", "a", "m", "e">>
Name_prototype == <<"p", "r", "o", "t", "o", "t", "y", "p", "e">>
Name_tag == <<"t", "a", "g">>

ClassProperties ==
  [n \in {Name_length, Name_name, Name_prototype, Name_tag} |->
     CASE n = Name_length -> <<"own", "3">>
       [] n = Name_name -> <<"own", "ComponentType">>
       [] n = Name_prototype -> <<"own", "object">>
       [] n = Name_tag -> <<"own", Tag>>]

\* --------------------------------------------------------------- MapOfSets
\* A MapOfSets is a function from the keys present to their Set objects'
\* members.  emptySet is the module-level Set that get() hands out for an
\* absent key; it is threaded through as `es`.
Undefined == "undefined"

Has(m, key) == key \in DOMAIN m

MapOfSets_get(m, es, key) == IF Has(m, key) THEN m[key] ELSE es

\* set(key, value) that stores a new Set for the key each time.
MapOfSets_setNew(m, key, value) ==
  [k \in DOMAIN m \cup {key} |-> IF k = key THEN {value} ELSE m[k]]

\* set(key, value): the map afterwards.
MapOfSets_set(m, key, value) ==
  IF ~Has(m, key)
  THEN [k \in DOMAIN m \cup {key} |-> IF k = key THEN {value} ELSE m[k]]
  ELSE [m EXCEPT ![key] = @ \cup {value}]

\* delete(key, value) that removes the key when the value was not in its Set.
MapOfSets_deleteInverted(m, es, key, value) ==
  IF Has(m, key)
  THEN IF value \in m[key]
       THEN [map |-> [m EXCEPT ![key] = @ \ {value}],
             es |-> es, ret |-> TRUE, dropped |-> FALSE]
       ELSE [map |-> [k \in DOMAIN m \ {key} |-> m[k]],
             es |-> es, ret |-> FALSE, dropped |-> TRUE]
  ELSE [map |-> m, es |-> es \ {value}, ret |-> value \in es, dropped |-> FALSE]

\* delete(key, value) that leaves a Set in the map when its last member goes.
MapOfSets_deleteKeeping(m, es, key, value) ==
  IF Has(m, key)
  THEN IF value \in m[key]
       THEN [map |-> [m EXCEPT ![key] = @ \ {value}],
             es |-> es, ret |-> TRUE, dropped |-> FALSE]
       ELSE [map |-> m, es |-> es, ret |-> FALSE, dropped |-> FALSE]
  ELSE [map |-> m, es |-> es \ {value}, ret |-> value \in es, dropped |-> FALSE]

\* delete(key, value): [map, es, ret, dropped] afterwards; dropped tells that
\* the key's Set object became empty and was removed from the map.
MapOfSets_delete(m, es, key, value) ==
  IF Has(m, key)
  THEN IF value \in m[key]
       THEN IF m[key] = {value}
            THEN [map |-> [k \in DOMAIN m \ {key} |-> m[k]],
                  es |-> es, ret |-> TRUE, dropped |-> TRUE]
            ELSE [map |-> [m EXCEPT ![key] = @ \ {value}],
                  es |-> es, ret |-> TRUE, dropped |-> FALSE]
       ELSE [map |-> m, es |-> es, ret |-> FALSE, dropped |-> FALSE]
  ELSE [map |-> m, es |-> es \ {value}, ret |-> value \in es, dropped |-> FALSE]

EmptyMap == [k \in {} |-> {}]

\* ----------------------------------------------------------- driver values
Frac(n, d) == <<n, d>>
One == Frac(1, 1)

\* A timer or frame handle: undefined, the handle of the interval or of the
\* pending frame request that belongs to the c-th start() call, or the handle
\* of a frame request that has fired.
NoHandle == <<>>
Handle(c) == <<c>>
Fired == <<0>>

Idle ==
  [kind |-> "idle", c |-> 0, now |-> 0, before |-> 0, deltaT |-> Frac(0, 1),
   iterations |-> 0, phase |-> "end", i |-> 0, s |-> 0]


\* ------------------------------------------------------------------- state
VARIABLES
  created,                  \* the Entity objects constructed so far
  entName,                  \* entity.name (Undefined when none was given)
  components,               \* entity.components: type -> value
  componentNames,           \* entity.componentNames
  entities,                 \* world.entities
  entitiesByName,           \* world.entitiesByName (MapOfSets)
  entitiesByComponentType,  \* world.entitiesByComponentType (MapOfSets)
  queries,                  \* world.queries (MapOfSets): key -> entities
  cachedQueries,            \* world.cachedQueries: key -> value.queries
  emptySet,                 \* MapOfSets.js's module-level emptySet
  qh,                       \* the Query objects callers hold, in creation order
  sys,                      \* the System objects, in creation order
  systems,                  \* world.systems: the ordered list of System objects
  ret,                      \* what the last call returned or threw
  registry,                 \* the own properties of the ComponentType class object
  clock,                    \* performance.now(), in milliseconds
  updateId,                 \* world._updateId
  drawId,                   \* world._drawId
  intervals,                \* the host's live interval timers
  frames,                   \* the host's pending animation frame requests
  closure,                  \* the variables of each start() call's closure
  run,                      \* the driver callback the host is running
  log,                      \* the System callbacks the running pass has invoked
  stopped,                  \* stop() has returned and start() was not called since
  lastTick                  \* when the latest tick began and what ratio it recorded

typeVars == <<registry>>
driverVars == <<clock, updateId, drawId, intervals, frames, closure, run, log,
                stopped, lastTick>>

vars == <<created, entName, components, componentNames, entities, entitiesByName,
          entitiesByComponentType, queries, cachedQueries, emptySet, qh, sys,
          systems, ret, typeVars, driverVars>>

entityVars == <<created, entName, components, componentNames, entities,
                entitiesByName, entitiesByComponentType>>
queryVars == <<queries, cachedQueries, emptySet, qh>>
systemVars == <<sys, systems>>

NoKey == <<>>    \* a Query without this.key (undefined, or deleted)

\* World.constructor
Init ==
  /\ created = {}
  /\ entName = [e \in Ents |-> Undefined]
  /\ components = [e \in Ents |-> EmptyMap]
  /\ componentNames = [e \in Ents |-> {}]
  /\ entities = {}
  /\ entitiesByName = EmptyMap
  /\ entitiesByComponentType = EmptyMap
  /\ queries = EmptyMap
  /\ cachedQueries = EmptyMap
  /\ emptySet = {}
  /\ qh = <<>>
  /\ sys = <<>>
  /\ systems = <<>>
  /\ ret = "undefined"
  /\ registry = ClassProperties
  /\ clock = 0
  /\ updateId = NoHandle
  /\ drawId = NoHandle
  /\ intervals = {}
  /\ frames = {}
  /\ closure = <<>>
  /\ run = Idle
  /\ log = <<>>
  /\ stopped = FALSE
  /\ lastTick = [at |-> 0, ratio |-> One]

\* ------------------------------------------------------------ query refresh
\* Entity.refreshQuery(queryKey) for an entity e whose componentNames are
\* `names`, on st = [map |-> world.queries, es |-> emptySet, dropped |-> the
\* keys whose Set object has been removed from world.queries so far].
Entity_refreshQuery(st, e, names, queryKey) ==
  LET parts == Split(queryKey)
      belongInQuery == \A i \in 1..Len(parts) : parts[i] \in names
  IN IF belongInQuery
     THEN [st EXCEPT !.map = MapOfSets_set(st.map, Join(parts), e)]
     ELSE LET r == MapOfSets_delete(st.map, st.es, Join(parts), e)
          IN [map |-> r.map, es |-> r.es,
              dropped |-> IF r.dropped THEN st.dropped \cup {Join(parts)} ELSE st.dropped]

\* The state the refreshes of one call start from.
QueriesState(es) == [map |-> queries, es |-> es, dropped |-> {}]

\* A System's this.entities holds the Set object that the getter returned when
\* the System was constructed: "current" while that object is still the one
\* world.queries maps the key to, "detached" once the map has dropped it (the
\* object is then empty and nothing adds to it), "emptySet" for the shared
\* emptySet, "unset" for a System without a query.
DetachRefs(ss, dropped) ==
  [i \in DOMAIN ss |->
     IF ss[i].entitiesRef = "current" /\ ss[i].key \in dropped
     THEN [ss[i] EXCEPT !.entitiesRef = "detached"] ELSE ss[i]]

\* Entity.refreshQueries(): refreshQuery for every key of world.cachedQueries.
\* The keys are visited in the Map's order; the refreshes of different keys
\* touch different entries, so the set `keys` is folded in any order.
RECURSIVE Entity_refreshQueries(_, _, _, _)
Entity_refreshQueries(st, e, names, keys) ==
  IF keys = {} THEN st
  ELSE LET k == CHOOSE x \in keys : TRUE
       IN Entity_refreshQueries(Entity_refreshQuery(st, e, names, k), e, names, keys \ {k})

\* ----------------------------------------------------------------- Entity
\* new Entity(name)
NewEntity(name) ==
  /\ Cardinality(created) < MaxEntities
  /\ IF name = ""
     THEN /\ ret' = ErrEntityName
          /\ UNCHANGED <<entityVars, queryVars, systemVars>>
     ELSE LET e == Cardinality(created) + 1 IN
          /\ created' = created \cup {e}
          /\ entName' = [entName EXCEPT ![e] = name]
          /\ entities' = entities \cup {e}                       \* _addEntity
          /\ entitiesByName' = IF name # Undefined
                               THEN MapOfSets_set(entitiesByName, name, e)
                               ELSE entitiesByName
          /\ components' = [components EXCEPT ![e] = EmptyMap]
          /\ componentNames' = [componentNames EXCEPT ![e] = {}]
          /\ ret' = "object"
          /\ UNCHANGED <<entitiesByComponentType, queryVars, systemVars>>
  /\ UNCHANGED <<typeVars, driverVars>>

\* World._removeEntity(entity): [entities, map, es] afterwards.
World_removeEntity(e) ==
  LET r == MapOfSets_delete(entitiesByName, emptySet, entName[e], e)
  IN [entities |-> entities \ {e}, map |-> r.map, es |-> r.es]

\* entity.die()
Die(e) ==
  /\ e \in created
  /\ LET r == World_removeEntity(e) IN
       /\ entities' = r.entities
       /\ entitiesByName' = r.map
       /\ emptySet' = r.es
  /\ ret' = "undefined"
  /\ UNCHANGED <<created, entName, components, componentNames,
                 entitiesByComponentType, queries, cachedQueries, qh, systemVars>>
  /\ UNCHANGED <<typeVars, driverVars>>

NoArg == "noarg"    \* addComponent called with one argument

\* The value addComponent stores.
StoredValue(t, value) ==
  LET v == IF value = NoArg THEN DefaultValue(t) ELSE value
  IN IF v \in Factories THEN Call(v) ELSE v

\* entity.addComponent(componentType, value)
AddComponent(e, t, value) ==
  /\ e \in created
  /\ IF t \notin CTypes
     THEN /\ ret' = ErrComponentType
          /\ UNCHANGED <<entityVars, queryVars, systemVars>>
     ELSE IF t \in DOMAIN components[e]
     THEN /\ ret' = "false"
          /\ UNCHANGED <<entityVars, queryVars, systemVars>>
     ELSE LET names == componentNames[e] \cup {TypeName(t)}
              st == Entity_refreshQueries(QueriesState(emptySet),
                                          e, names, DOMAIN cachedQueries)
          IN
          /\ components' = [components EXCEPT ![e] =
                 [k \in DOMAIN @ \cup {t} |-> IF k = t THEN StoredValue(t, value) ELSE @[k]]]
          /\ componentNames' = [componentNames EXCEPT ![e] = names]
          /\ entitiesByComponentType' = MapOfSets_set(entitiesByComponentType, t, e)
          /\ queries' = st.map
          /\ emptySet' = st.es
          /\ sys' = DetachRefs(sys, st.dropped)
          /\ ret' = "true"
          /\ UNCHANGED <<created, entName, entities, entitiesByName,
                         cachedQueries, qh, systems>>
  /\ UNCHANGED <<typeVars, driverVars>>

\* entity.deleteComponent(componentType)
DeleteComponent(e, t) ==
  /\ e \in created
  /\ IF t \notin DOMAIN components[e]
     THEN /\ ret' = "false"
          /\ UNCHANGED <<entityVars, queryVars, systemVars>>
     ELSE LET names == componentNames[e] \ {TypeName(t)}
              r == MapOfSets_delete(entitiesByComponentType, emptySet, t, e)
              st == Entity_refreshQueries(QueriesState(r.es),
                                          e, names, DOMAIN cachedQueries)
          IN
          /\ components' = [components EXCEPT ![e] =
                 [k \in DOMAIN @ \ {t} |-> @[k]]]
          /\ componentNames' = [componentNames EXCEPT ![e] = names]
          /\ entitiesByComponentType' = r.map
          /\ queries' = st.map
          /\ emptySet' = st.es
          /\ sys' = DetachRefs(sys, st.dropped)
          /\ ret' = "true"
          /\ UNCHANGED <<created, entName, entities, entitiesByName,
                         cachedQueries, qh, systems>>
  /\ UNCHANGED <<typeVars, driverVars>>

\* entity.hasComponent(componentType)
HasComponent(e, t) == t \in DOMAIN components[e]

\* setComponent without the test for the sentinel.
SetComponentAny(e, t, newValue) ==
  /\ e \in created
  /\ IF ~HasComponent(e, t)
     THEN /\ ret' = "false"
          /\ UNCHANGED <<entityVars, queryVars, systemVars>>
     ELSE /\ components' = [components EXCEPT ![e][t] = newValue]
          /\ ret' = "true"
          /\ UNCHANGED <<created, entName, componentNames, entities, entitiesByName,
                         entitiesByComponentType, queryVars, systemVars>>
  /\ UNCHANGED <<typeVars, driverVars>>

\* entity.setComponent(componentType, newValue)
SetComponent(e, t, newValue) ==
  /\ e \in created
  /\ IF ~HasComponent(e, t)
     THEN /\ ret' = "false"
          /\ UNCHANGED <<entityVars, queryVars, systemVars>>
     ELSE IF components[e][t] = Tag
     THEN /\ ret' = "false"
          /\ UNCHANGED <<entityVars, queryVars, systemVars>>
     ELSE /\ components' = [components EXCEPT ![e][t] = newValue]
          /\ ret' = "true"
          /\ UNCHANGED <<created, entName, componentNames, entities, entitiesByName,
                         entitiesByComponentType, queryVars, systemVars>>
  /\ UNCHANGED <<typeVars, driverVars>>


\* ------------------------------------------------------------------ Query
\* A components argument: one ComponentType, or an array (or Set) of them in
\* its iteration order; null stands for a System constructed without one.
Bare(t) == <<"type", <<t>>>>
List(l) == <<"array", l>>
NoComponents == <<"null", <<>>>>

\* components as the constructor normalises them: a bare ComponentType
\* becomes a one-element list.
Query_components(c) == c[2]

\* The canonical key: the component names, sorted and joined with ",".
Query_key(comps) == Join(Sort([i \in 1..Len(comps) |-> TypeName(comps[i])]))

\* The constructor without the loop that initialises the query set.
Query_seedNone(st, ents, key) == st

\* The loop of the constructor that initialises the query set:
\* entity.refreshQuery(key) for every entity of world.entities, which iterates
\* in insertion order, that is in the order of creation.
RECURSIVE Query_seed(_, _, _)
Query_seed(st, ents, key) ==
  IF ents = {} THEN st
  ELSE LET e == CHOOSE x \in ents : \A y \in ents : x <= y
       IN Query_seed(Entity_refreshQuery(st, e, componentNames[e], key), ents \ {e}, key)

\* new Query(components): [key, cached, st] afterwards, key being this.key.
Query_new(c) ==
  LET comps == Query_components(c)
      key == Query_key(comps)
  IN IF Len(comps) > 1
     THEN IF key \in DOMAIN cachedQueries
          THEN [key |-> key,
                cached |-> [cachedQueries EXCEPT ![key] = @ + 1],
                st |-> QueriesState(emptySet)]
          ELSE [key |-> key,
                cached |-> [k \in DOMAIN cachedQueries \cup {key} |->
                              IF k = key THEN 1 ELSE cachedQueries[k]],
                st |-> Query_seed(QueriesState(emptySet), entities, key)]
     ELSE [key |-> NoKey, cached |-> cachedQueries, st |-> QueriesState(emptySet)]

\* get entities(): what a read of query.entities gives for a Query whose
\* this.key is `key`: the Set of the key, or a TypeError, because
\* world.entitiesByComponentType is a MapOfSets and not a function.
Query_entities(m, es, key) ==
  IF key # NoKey
  THEN [raises |-> FALSE, set |-> MapOfSets_get(m, es, key)]
  ELSE [raises |-> TRUE, set |-> {}]

\* const q = new world.Query(c)
NewQuery(c) ==
  /\ Len(qh) < MaxQueries
  /\ LET q == Query_new(c) IN
       /\ qh' = Append(qh, [components |-> Query_components(c), key |-> q.key,
                            destroyed |-> FALSE])
       /\ cachedQueries' = q.cached
       /\ queries' = q.st.map
       /\ emptySet' = q.st.es
       /\ sys' = DetachRefs(sys, q.st.dropped)
  /\ ret' = "object"
  /\ UNCHANGED <<entityVars, systems>>
  /\ UNCHANGED <<typeVars, driverVars>>

\* q.entities, read by a caller
ReadEntities(h) ==
  /\ h \in DOMAIN qh
  /\ ret' = IF Query_entities(queries, emptySet, qh[h].key).raises
            THEN ErrNotAFunction ELSE "set"
  /\ UNCHANGED <<entityVars, queryVars, systemVars>>
  /\ UNCHANGED <<typeVars, driverVars>>

\* q.destroy().  qh[h].destroyed only records that destroy() has been called.
QueryDestroy(h) ==
  /\ h \in DOMAIN qh
  /\ LET key == qh[h].key IN
     IF key # NoKey
     THEN IF key \notin DOMAIN cachedQueries
          THEN \* value is undefined: value.queries-- throws
               /\ ret' = ErrUndefinedValue
               /\ qh' = [qh EXCEPT ![h].destroyed = TRUE]
               /\ UNCHANGED cachedQueries
          ELSE IF cachedQueries[key] - 1 < 1
          THEN \* world.queries.clearSet is not a function: throws after the
               \* cache entry is deleted and before this.key is
               /\ cachedQueries' = [k \in DOMAIN cachedQueries \ {key} |-> cachedQueries[k]]
               /\ ret' = ErrClearSet
               /\ qh' = [qh EXCEPT ![h].destroyed = TRUE]
          ELSE /\ cachedQueries' = [cachedQueries EXCEPT ![key] = @ - 1]
               /\ qh' = [qh EXCEPT ![h].key = NoKey, ![h].destroyed = TRUE]
               /\ ret' = "undefined"
     ELSE /\ ret' = "undefined"
          /\ qh' = [qh EXCEPT ![h].destroyed = TRUE]
          /\ UNCHANGED cachedQueries
  /\ UNCHANGED <<entityVars, queries, emptySet, systemVars>>
  /\ UNCHANGED <<typeVars, driverVars>>


\* ----------------------------------------------------------------- System
\* Priorities are counted in units of 0.05 / PriorityUnit.  A derived priority
\* halves a sum at most once per System constructed, so with PriorityUnit a
\* power of two not below 2^MaxSystems every midpoint is a whole number.
PriorityUnit == 2 ^ MaxSystems
Eps == 2 * PriorityUnit      \* the 0.1 of _determineAfterPriority / Before

\* A number or undefined: <<v>> or <<>>.
NoPriority == <<>>
Num(v) == <<v>>

\* An `after` / `before` value: undefined, one System, or a list (or Set) of
\* Systems in its iteration order.
NoRef == <<"undefined", <<>>>>
OneSystem(x) == <<"system", <<x>>>>
SystemList(l) == <<"list", l>>
RefSystems(r) == {r[2][i] : i \in 1..Len(r[2])}

\* _determineAfterPriority with > for >=.
AfterStepStrict(afterPriority, p) ==
  IF afterPriority = NoPriority \/ afterPriority[1] > p THEN Num(p - Eps) ELSE afterPriority

\* One pass of the test and assignment of _determineAfterPriority.
AfterStep(afterPriority, p) ==
  IF afterPriority = NoPriority \/ afterPriority[1] >= p THEN Num(p - Eps) ELSE afterPriority

RECURSIVE AfterLoop(_, _)
AfterLoop(l, afterPriority) ==
  IF l = <<>> THEN afterPriority
  ELSE AfterLoop(Tail(l), AfterStep(afterPriority, sys[Head(l)].priority))

\* System._determineAfterPriority(after, afterPriority)
System_determineAfterPriority(after, afterPriority) ==
  CASE after[1] = "system" -> AfterStep(afterPriority, sys[after[2][1]].priority)
    [] after[1] = "list" -> AfterLoop(after[2], afterPriority)
    [] OTHER -> afterPriority

\* One pass of the test and assignment of _determineBeforePriority.
BeforeStep(beforePriority, p) ==
  IF beforePriority = NoPriority \/ beforePriority[1] <= p THEN Num(p + Eps) ELSE beforePriority

RECURSIVE BeforeLoop(_, _)
BeforeLoop(l, beforePriority) ==
  IF l = <<>> THEN beforePriority
  ELSE BeforeLoop(Tail(l), BeforeStep(beforePriority, sys[Head(l)].priority))

\* System._determineBeforePriority(before, beforePriority)
System_determineBeforePriority(before, beforePriority) ==
  CASE before[1] = "system" -> BeforeStep(beforePriority, sys[before[2][1]].priority)
    [] before[1] = "list" -> BeforeLoop(before[2], beforePriority)
    [] OTHER -> beforePriority

\* if (x) for x a number or undefined
Truthy(x) == x # NoPriority /\ x[1] # 0

\* The priority argument of the constructor: a number, or an object with
\* after and before.
Number(v) == <<"number", v, NoRef, NoRef>>
Placement(after, before) == <<"object", 0, after, before>>

\* The priority the constructor derives: [raises, priority].
System_priority(priority) ==
  IF priority[1] = "number"
  THEN [raises |-> FALSE, priority |-> priority[2]]
  ELSE LET afterPriority == System_determineAfterPriority(priority[3], NoPriority)
           beforePriority == System_determineBeforePriority(priority[4], NoPriority)
       IN IF Truthy(afterPriority) /\ Truthy(beforePriority)
          THEN IF afterPriority[1] > beforePriority[1]
               THEN [raises |-> TRUE, priority |-> 0]
               ELSE [raises |-> FALSE,
                     priority |-> (afterPriority[1] + beforePriority[1]) \div 2]
          ELSE IF Truthy(afterPriority)
          THEN [raises |-> FALSE, priority |-> afterPriority[1]]
          ELSE IF Truthy(beforePriority)
          THEN [raises |-> FALSE, priority |-> beforePriority[1]]
          ELSE [raises |-> FALSE, priority |-> 0]

\* activate() with < for <=: a System goes before those of its own priority.
RECURSIVE InsertIndexBeforeEqual(_, _, _)
InsertIndexBeforeEqual(l, p, i) ==
  IF i = 0 THEN 1
  ELSE IF sys[l[i]].priority < p THEN i + 1
  ELSE InsertIndexBeforeEqual(l, p, i - 1)

\* The index (1-based) at which activate() splices a System of priority p into
\* the list l of System ids: the scan from the tail stops at the first System
\* whose priority is <= p.
RECURSIVE InsertIndex(_, _, _)
InsertIndex(l, p, i) ==
  IF i = 0 THEN 1
  ELSE IF sys[l[i]].priority <= p THEN i + 1
  ELSE InsertIndex(l, p, i - 1)

\* world.systems.splice(insertIndex, 0, this)
Splice(l, at, x) == SubSeq(l, 1, at - 1) \o <<x>> \o SubSeq(l, at, Len(l))

\* The list after activate() has inserted System x of priority p.
System_insert(l, p, x) == Splice(l, InsertIndex(l, p, Len(l)), x)


\* The Set a System reads as this.entities.
System_entities(x) ==
  CASE sys[x].entitiesRef = "current" -> queries[sys[x].key]
    [] sys[x].entitiesRef = "emptySet" -> emptySet
    [] OTHER -> {}

\* The methods object of a System: the names of the callbacks it defines.
NoMethods == {}

\* new System(components, methods, priority): the methods copied onto the
\* System, the Query, the read of its entities, the priority, and activate().
NewSystem(c, methods, priority) ==
  /\ Len(sys) < MaxSystems
  /\ LET q == IF c = NoComponents
              THEN [key |-> NoKey, cached |-> cachedQueries, st |-> QueriesState(emptySet)]
              ELSE Query_new(c)
         read == Query_entities(q.st.map, q.st.es, q.key)
         pr == System_priority(priority)
         x == Len(sys) + 1
         before == DetachRefs(sys, q.st.dropped)
     IN
     /\ cachedQueries' = q.cached
     /\ queries' = q.st.map
     /\ emptySet' = q.st.es
     /\ IF c # NoComponents /\ read.raises
        THEN /\ ret' = ErrNotAFunction
             /\ sys' = before
             /\ UNCHANGED systems
        ELSE IF pr.raises
        THEN /\ ret' = ErrPriority
             /\ sys' = before
             /\ UNCHANGED systems
        ELSE /\ sys' = Append(before,
                  [methods |-> methods,
                   key |-> q.key,
                   entitiesRef |-> IF c = NoComponents THEN "unset"
                                   ELSE IF Has(q.st.map, q.key) THEN "current"
                                   ELSE "emptySet",
                   priority |-> pr.priority,
                   after |-> priority[3],
                   before |-> priority[4],
                   active |-> TRUE])
             /\ systems' = System_insert(systems, pr.priority, x)
             /\ ret' = "object"
  /\ UNCHANGED <<entityVars, qh>>
  /\ UNCHANGED <<typeVars, driverVars>>

\* system.activate()
Activate(x) ==
  /\ x \in DOMAIN sys
  /\ IF sys[x].active
     THEN /\ ret' = "false"
          /\ UNCHANGED systemVars
     ELSE /\ systems' = System_insert(systems, sys[x].priority, x)
          /\ sys' = [sys EXCEPT ![x].active = TRUE]
          /\ ret' = "true"
  /\ UNCHANGED <<entityVars, queryVars>>
  /\ UNCHANGED <<typeVars, driverVars>>

\* The list without its first occurrence of x.
RECURSIVE RemoveFirst(_, _)
RemoveFirst(l, x) ==
  IF l = <<>> THEN <<>>
  ELSE IF Head(l) = x THEN Tail(l)
  ELSE <<Head(l)>> \o RemoveFirst(Tail(l), x)

\* system.deactivate()
Deactivate(x) ==
  /\ x \in DOMAIN sys
  /\ sys' = [sys EXCEPT ![x].active = FALSE]
  /\ systems' = RemoveFirst(systems, x)
  /\ ret' = "undefined"
  /\ UNCHANGED <<entityVars, queryVars>>
  /\ UNCHANGED <<typeVars, driverVars>>

\* ---------------------------------------------------------- ComponentType
\* if (ComponentType[name]): the class object has a property of that name;
\* every value it holds, its own or a ComponentType, is truthy.
ComponentType_has(name) == name \in DOMAIN registry

\* The ComponentType objects constructed: the properties that hold one.
IsType(v) == v[1] = "type"
Registered == {n \in DOMAIN registry : IsType(registry[n])}

\* typeof defaultValue === "object" for a value that is not null
IsObject(d) == d = "object"

\* A name argument: a string, or undefined.
Str(s) == <<"string", s>>
NoName == <<"undefined", <<>>>>

\* new world.ComponentType(arg, defaultValue)
Define(arg, defaultValue) ==
  /\ LET name == arg[2] IN
     IF arg[1] # "string"
     THEN /\ ret' = ErrTypeName
          /\ UNCHANGED registry
     ELSE IF ComponentType_has(name)
     THEN /\ ret' = ErrTypeExists
          /\ UNCHANGED registry
     ELSE IF Len(Split(name)) > 1
     THEN /\ ret' = ErrTypeComma
          /\ UNCHANGED registry
     ELSE IF IsObject(defaultValue)
     THEN /\ ret' = ErrTypeDefault
          /\ UNCHANGED registry
     ELSE /\ registry' = [n \in DOMAIN registry \cup {name} |->
                            IF n = name
                            THEN <<"type", name,
                                   IF defaultValue = Undefined THEN Tag ELSE defaultValue>>
                            ELSE registry[n]]
          /\ ret' = "object"
  /\ UNCHANGED <<entityVars, queryVars, systemVars, driverVars>>

\* ------------------------------------------------------------------ drivers
\* Times are in milliseconds, and so are deltaT and max_dt (the code counts
\* them in seconds, multiplying by 0.001).  A quotient is kept as the pair of
\* its numerator and denominator.
max_dt == 2                    \* new World(0.002, 2)
maxTimesBiggerThanMaxDt == 2

\* The part of the state that start() and stop() work on.
DriverState ==
  [updateId |-> updateId, drawId |-> drawId, intervals |-> intervals,
   frames |-> frames, closure |-> closure, stopped |-> stopped, lastTick |-> lastTick]

SetDriver(d) ==
  /\ updateId' = d.updateId
  /\ drawId' = d.drawId
  /\ intervals' = d.intervals
  /\ frames' = d.frames
  /\ closure' = d.closure
  /\ stopped' = d.stopped
  /\ lastTick' = d.lastTick

\* world.stop()
World_stop(d) ==
  [d EXCEPT !.intervals = @ \ {d.updateId},      \* clearInterval
            !.frames = @ \ {d.drawId},           \* cancelAnimationFrame
            !.updateId = NoHandle,
            !.drawId = NoHandle,
            !.stopped = TRUE]

\* world.start() at time `now`: stop(), then a new closure with its interval
\* and its first frame request.
World_start(d, now) ==
  LET st == World_stop(d)
      c == Len(st.closure) + 1
  IN [updateId |-> Handle(c),
      drawId |-> Handle(c),
      intervals |-> st.intervals \cup {Handle(c)},
      frames |-> st.frames \cup {Handle(c)},
      closure |-> Append(st.closure,
                    [usedDivRealDeltaT |-> One, updateBefore |-> now, drawBefore |-> now]),
      stopped |-> FALSE,
      lastTick |-> [at |-> now, ratio |-> One]]

\* world.start(), called outside the callbacks
Start ==
  /\ run.kind = "idle"
  /\ Len(closure) < MaxStarts
  /\ SetDriver(World_start(DriverState, clock))
  /\ ret' = "undefined"
  /\ UNCHANGED <<entityVars, queryVars, systemVars, typeVars, clock, run, log>>

\* world.stop(), called outside the callbacks
Stop ==
  /\ run.kind = "idle"
  /\ SetDriver(World_stop(DriverState))
  /\ ret' = "undefined"
  /\ UNCHANGED <<entityVars, queryVars, systemVars, typeVars, clock, run, log>>

\* Time passes between two callbacks of the host.
Advance ==
  /\ run.kind = "idle"
  /\ clock < MaxClock
  /\ clock' = clock + 1
  /\ UNCHANGED <<entityVars, queryVars, systemVars, typeVars, ret, updateId, drawId,
                 intervals, frames, closure, run, log, stopped, lastTick>>

\* Math.ceil(deltaT / this.max_dt) with Math.floor for Math.ceil.
IterationsFloor(deltaT) == deltaT \div max_dt

\* Math.ceil(deltaT / this.max_dt), for deltaT >= 0
Iterations(deltaT) == (deltaT + max_dt - 1) \div max_dt

\* The order of the driver's calls with _update before _calculus.
PhaseAfterUpdateFirst(phase) ==
  CASE phase = "earlyUpdate" -> "update"
    [] phase = "update" -> "calculus"
    [] phase = "calculus" -> "end"
    [] phase = "draw" -> "end"

\* The order of the update driver's calls: _earlyUpdate, _calculus, _update;
\* the draw driver calls _draw only.
PhaseAfter(phase) ==
  CASE phase = "earlyUpdate" -> "calculus"
    [] phase = "calculus" -> "update"
    [] phase = "update" -> "end"
    [] phase = "draw" -> "end"

\* The loops of _earlyUpdate, _calculus, _update and _draw: from the place
\* (phase, sub-step i, index s into world.systems), the place of the next
\* callback that is called, skipping the Systems that do not define it;
\* n is `iterations`.
RECURSIVE NextCall(_, _, _, _)
NextCall(phase, i, s, n) ==
  IF phase = "end" THEN [phase |-> "end", i |-> 0, s |-> 0]
  ELSE IF phase = "calculus" /\ i >= n THEN NextCall(PhaseAfter(phase), 0, 1, n)
  ELSE IF s > Len(systems)
       THEN IF phase = "calculus" THEN NextCall(phase, i + 1, 1, n)
            ELSE NextCall(PhaseAfter(phase), 0, 1, n)
  ELSE IF phase \notin sys[systems[s]].methods THEN NextCall(phase, i, s + 1, n)
  ELSE [phase |-> phase, i |-> i, s |-> s]

\* The host calls the interval callback of the c-th start(): the tick's
\* deltaT and ratio, up to the first System callback.
FireInterval(c) ==
  /\ run.kind = "idle"
  /\ Handle(c) \in intervals
  /\ LET updateNow == clock
         real == updateNow - closure[c].updateBefore
         newDeltaT == maxTimesBiggerThanMaxDt * max_dt
         clamp == real > newDeltaT
         deltaT == IF clamp THEN newDeltaT ELSE real
         ratio == IF clamp THEN Frac(newDeltaT, real) ELSE One
         iterations == Iterations(deltaT)
         first == NextCall("earlyUpdate", 0, 1, iterations)
     IN /\ closure' = [closure EXCEPT ![c].usedDivRealDeltaT = ratio]
        /\ run' = [kind |-> "update", c |-> c, now |-> updateNow,
                   before |-> closure[c].updateBefore, deltaT |-> Frac(deltaT, 1),
                   iterations |-> iterations,
                   phase |-> first.phase, i |-> first.i, s |-> first.s]
        /\ lastTick' = [at |-> updateNow, ratio |-> ratio]
  /\ log' = <<>>
  /\ UNCHANGED <<entityVars, queryVars, systemVars, typeVars, ret, clock, updateId,
                 drawId, intervals, frames, stopped>>

\* The host calls the frame callback of the c-th start(): the frame's deltaT,
\* up to the first System callback.
FireFrame(c) ==
  /\ run.kind = "idle"
  /\ Handle(c) \in frames
  /\ LET drawNow == clock
         ratio == closure[c].usedDivRealDeltaT
         first == NextCall("draw", 0, 1, 0)
     IN run' = [kind |-> "draw", c |-> c, now |-> drawNow,
                before |-> closure[c].drawBefore,
                deltaT |-> Frac((drawNow - closure[c].drawBefore) * ratio[1], ratio[2]),
                iterations |-> 0,
                phase |-> first.phase, i |-> first.i, s |-> first.s]
  /\ frames' = frames \ {Handle(c)}
  /\ drawId' = IF drawId = Handle(c) THEN Fired ELSE drawId
  /\ log' = <<>>
  /\ UNCHANGED <<entityVars, queryVars, systemVars, typeVars, ret, clock, updateId,
                 intervals, closure, stopped, lastTick>>

\* What a System callback does to the drivers: nothing, world.stop() or
\* world.start().
Behaviours == {"return", "stop", "start"}

\* The running pass calls the callback at its place, which behaves as b, and
\* goes on to the place of the next one.
Invoke(b) ==
  /\ run.kind # "idle"
  /\ run.phase # "end"
  /\ b = "start" => Len(closure) < MaxStarts
  /\ LET next == NextCall(run.phase, run.i, run.s + 1, run.iterations)
         arg == IF run.phase = "calculus"
                THEN Frac(run.deltaT[1], run.iterations)     \* dt
                ELSE run.deltaT
     IN /\ log' = Append(log, [method |-> run.phase, system |-> systems[run.s],
                               i |-> run.i, deltaT |-> arg])
        /\ run' = [run EXCEPT !.phase = next.phase, !.i = next.i, !.s = next.s]
  /\ SetDriver(CASE b = "stop" -> World_stop(DriverState)
                 [] b = "start" -> World_start(DriverState, clock)
                 [] OTHER -> DriverState)
  /\ UNCHANGED <<entityVars, queryVars, systemVars, typeVars, ret, clock>>

\* The interval callback returns: updateBefore = updateNow.
UpdateReturn ==
  /\ run.kind = "update"
  /\ run.phase = "end"
  /\ closure' = [closure EXCEPT ![run.c].updateBefore = run.now]
  /\ run' = Idle
  /\ log' = <<>>
  /\ UNCHANGED <<entityVars, queryVars, systemVars, typeVars, ret, clock, updateId,
                 drawId, intervals, frames, stopped, lastTick>>

\* The frame callback returns: drawBefore = drawNow, and the next frame is
\* requested.
DrawReturn ==
  /\ run.kind = "draw"
  /\ run.phase = "end"
  /\ closure' = [closure EXCEPT ![run.c].drawBefore = run.now]
  /\ drawId' = Handle(run.c)
  /\ frames' = frames \cup {Handle(run.c)}
  /\ run' = Idle
  /\ log' = <<>>
  /\ UNCHANGED <<entityVars, queryVars, systemVars, typeVars, ret, clock, updateId,
                 intervals, stopped, lastTick>>

\* ---------------------------------------------------------- MapOfSets calls
\* set(key, value), delete(key, value) and get(key) called on one MapOfSets,
\* world.queries; the World's other two indexes are objects of the same class.
\* set() returns the key's Set, get() the key's Set or the shared emptySet.
Index_set(key, value) ==
  /\ queries' = MapOfSets_set(queries, key, value)
  /\ ret' = "set"
  /\ UNCHANGED <<entityVars, cachedQueries, emptySet, qh, systemVars>>
  /\ UNCHANGED <<typeVars, driverVars>>

Index_delete(key, value) ==
  /\ LET r == MapOfSets_delete(queries, emptySet, key, value) IN
       /\ queries' = r.map
       /\ emptySet' = r.es
       /\ ret' = IF r.ret THEN "true" ELSE "false"
  /\ UNCHANGED <<entityVars, cachedQueries, qh, systemVars>>
  /\ UNCHANGED <<typeVars, driverVars>>

Index_get(key) ==
  /\ ret' = IF Has(queries, key) THEN "set" ELSE "emptySet"
  /\ UNCHANGED <<entityVars, queryVars, systemVars>>
  /\ UNCHANGED <<typeVars, driverVars>>

\* ------------------------------------------------------------ specifications
EntityNameInputs == {Undefined, "", "p"}
TypeInputs == CTypes \cup {"notAType"}
ValueInputs == {NoArg}
NewValueInputs == {"v"}
QueryInputs == {Bare("A"), List(<<"A">>), List(<<"A", "B">>), List(<<"B", "A">>)}

\* The calls on entities and their components.
EntityNext ==
  \/ \E name \in EntityNameInputs : NewEntity(name)
  \/ \E e \in Ents : Die(e)
  \/ \E e \in Ents, t \in TypeInputs, v \in ValueInputs : AddComponent(e, t, v)
  \/ \E e \in Ents, t \in CTypes : DeleteComponent(e, t)
  \/ \E e \in Ents, t \in CTypes, v \in NewValueInputs : SetComponent(e, t, v)

\* Entities, components and the queries callers create and destroy.
Next ==
  \/ EntityNext
  \/ \E c \in QueryInputs : NewQuery(c)
  \/ \E h \in 1..MaxQueries : ReadEntities(h)
  \/ \E h \in 1..MaxQueries : QueryDestroy(h)

Spec == Init /\ [][Next]_vars

\* Entities, components and Systems constructed with a query.
NextSystems ==
  \/ EntityNext
  \/ \E c \in QueryInputs : Len(sys) < MaxQuerySystems /\ NewSystem(c, NoMethods, Number(0))

SpecSystems == Init /\ [][NextSystems]_vars


\* The numbers given as priority, in units of 0.05: -0.05, 0, 0.1, 0.2.
NumberInputs == {-1, 0, 2, 4}
MaxRefs == 2            \* Systems in one after / before list

\* The lists of up to MaxRefs different Systems constructed so far.
RefLists ==
  {l \in UNION {[1..n -> DOMAIN sys] : n \in 0..MaxRefs} :
     \A i, j \in DOMAIN l : i # j => l[i] # l[j]}

RefInputs ==
  {NoRef} \cup {OneSystem(x) : x \in DOMAIN sys} \cup {SystemList(l) : l \in RefLists}

\* The Systems without a query: construction with a number or with after and
\* before, activate() and deactivate().
NextSched ==
  \/ \E k \in NumberInputs : NewSystem(NoComponents, NoMethods, Number(k * PriorityUnit))
  \/ \E after \in RefInputs, before \in RefInputs :
       NewSystem(NoComponents, NoMethods, Placement(after, before))
  \/ \E x \in 1..MaxSystems : Activate(x)
  \/ \E x \in 1..MaxSystems : Deactivate(x)

SpecSched == Init /\ [][NextSched]_vars


\* Entities and their components, and one query over both types that is
\* created at some point and stays cached.
NextEntities ==
  \/ EntityNext
  \/ qh = <<>> /\ NewQuery(List(<<"A", "B">>))

SpecEntities == Init /\ [][NextEntities]_vars

\* The query arguments of the Systems placed with after and before: none, and
\* the two types as a list.
PlacedQueryInputs == {NoComponents, List(<<"A", "B">>)}

\* The numbers given as priority to the Systems others are placed between,
\* in units of 0.05: -0.05 and 0.2.
PlacedNumberInputs == {-1, 4}

\* Unnamed entities that gain components, Systems without a query constructed
\* with a number, and Systems constructed, with or without a query, after one
\* System and before another. At most MaxQuerySystems constructions are given
\* a query, whether they return or raise.
NextPlaced ==
  \/ NewEntity(Undefined)
  \/ \E e \in Ents, t \in CTypes : AddComponent(e, t, NoArg)
  \/ \E k \in PlacedNumberInputs :
       NewSystem(NoComponents, NoMethods, Number(k * PriorityUnit))
  \/ \E c \in PlacedQueryInputs, x \in DOMAIN sys, y \in DOMAIN sys :
       /\ c # NoComponents =>
            \A key \in DOMAIN cachedQueries : cachedQueries[key] < MaxQuerySystems
       /\ NewSystem(c, NoMethods, Placement(OneSystem(x), OneSystem(y)))

SpecPlaced == Init /\ [][NextPlaced]_vars

\* The keys given to the MapOfSets calls.
IndexKeys == {<<"a">>, <<"b">>, <<"a", ",", "b">>}

\* set, delete and get on one MapOfSets, with every key and value.
NextIndex ==
  \/ \E key \in IndexKeys, value \in Ents : Index_set(key, value)
  \/ \E key \in IndexKeys, value \in Ents : Index_delete(key, value)
  \/ \E key \in IndexKeys : Index_get(key)

SpecIndex == Init /\ [][NextIndex]_vars

\* The names and default values given to new ComponentType: no name, "",
\* "a", "b", "a,b", and the names of the class object's own properties;
\* no default, null, a number, a factory function and an object.
DefineNames ==
  {<<>>, <<"a">>, <<"b">>, <<"a", ",", "b">>,
   Name_length, Name_name, Name_prototype, Name_tag}
DefineNameInputs == {NoName} \cup {Str(n) : n \in DefineNames}
DefineDefaultInputs == {Undefined, "null", "0", "mkObj", "object"}

NextTypes == \E name \in DefineNameInputs, d \in DefineDefaultInputs : Define(name, d)

SpecTypes == Init /\ [][NextTypes]_vars

\* The methods objects given to the Systems the drivers call.
MethodInputs ==
  {{"earlyUpdate", "calculus", "update", "draw"}, {"calculus", "draw"}, {"earlyUpdate"}}

\* The drivers: Systems with callbacks constructed between the host's
\* callbacks, start() and stop() called there and from the System callbacks,
\* the passing of time, and the host calling the interval and frame callbacks.
NextDrivers ==
  \/ \E ms \in MethodInputs :
       /\ run.kind = "idle"
       /\ Len(sys) < MaxDriverSystems
       /\ NewSystem(NoComponents, ms, Number(0))
  \/ Start
  \/ Stop
  \/ Advance
  \/ \E c \in 1..MaxStarts : FireInterval(c)
  \/ \E c \in 1..MaxStarts : FireFrame(c)
  \/ \E b \in Behaviours : Invoke(b)
  \/ UpdateReturn
  \/ DrawReturn

SpecDrivers == Init /\ [][NextDrivers]_vars


\* ------------------------------------------------------------------ claims
\* The entities a query over `comps` should hold: the live entities whose
\* component names include every name of the query.
Matching(comps) ==
  {e \in entities : \A i \in 1..Len(comps) : TypeName(comps[i]) \in componentNames[e]}

IsCached(h) == qh[h].key # NoKey /\ qh[h].key \in DOMAIN cachedQueries

\* C1: for every multi-type query that is currently cached, Q.entities is
\* exactly the set of live entities whose component names include the
\* query's names.
C1_QueryEntitiesExact ==
  \A h \in DOMAIN qh :
    IsCached(h) =>
      Query_entities(queries, emptySet, qh[h].key).set = Matching(qh[h].components)

\* The members of all the Sets of a MapOfSets.
Members(m) == UNION {m[k] : k \in DOMAIN m}

\* The entities die() has been called on: constructed and no longer in
\* world.entities, which only die() removes from.
Dead == created \ entities

\* C2: once die(e) has returned, e is in no index of the World: not the
\* entity set, the by-name index, a by-component-type set or a query set,
\* whatever is called afterwards.
C2_DeadInNoIndex ==
  \A e \in Dead :
    /\ e \notin entities
    /\ e \notin Members(entitiesByName)
    /\ e \notin Members(entitiesByComponentType)
    /\ e \notin Members(queries)

\* C3: destroying the last handle of a cached multi-type query does not
\* raise, and leaves no entry for the key in cachedQueries or in queries.
C3_LastDestroyClears ==
  [][\A h \in DOMAIN qh :
       (IsCached(h) /\ cachedQueries[qh[h].key] = 1 /\ QueryDestroy(h)) =>
         /\ ret' \notin Thrown
         /\ qh[h].key \notin DOMAIN cachedQueries'
         /\ qh[h].key \notin DOMAIN queries']_vars

\* The handles created for the multi-type key k, and those among them that
\* destroy() has been called on.
HandlesOf(k) ==
  {h \in DOMAIN qh : Len(qh[h].components) > 1 /\ Query_key(qh[h].components) = k}
DestroyedOf(k) == {h \in HandlesOf(k) : qh[h].destroyed}
RefCount(k) == IF k \in DOMAIN cachedQueries THEN cachedQueries[k] ELSE 0
MultiKeys == {Query_key(c[2]) : c \in {c \in QueryInputs : Len(c[2]) > 1}}

\* C4: queries over the same component types in any order share one cache
\* entry, whose reference count is the number of handles created for the key
\* minus the number destroyed (a repeated destroy() counting once), and the
\* entry stays cached while a handle is left undestroyed.
C4_RefCountIsHandles ==
  \A k \in MultiKeys :
    /\ RefCount(k) = Cardinality(HandlesOf(k)) - Cardinality(DestroyedOf(k))
    /\ (HandlesOf(k) # DestroyedOf(k) => k \in DOMAIN cachedQueries)

\* C5: the set a System with a multi-type query reads as this.entities is
\* the current entity set of its query.
C5_SystemEntitiesCurrent ==
  \A x \in DOMAIN sys :
    sys[x].key # NoKey =>
      System_entities(x) = Query_entities(queries, emptySet, sys[x].key).set

\* C6: a read of query.entities of a single-type query returns, without
\* raising, the by-component-type set of its type.
C6_SingleTypeReadReturns ==
  [][\A h \in DOMAIN qh :
       (Len(qh[h].components) = 1 /\ ReadEntities(h)) => ret' = "set"]_vars


ActiveSystems == {x \in DOMAIN sys : sys[x].active}
InList(l) == {l[i] : i \in DOMAIN l}
Pos(l, x) == CHOOSE i \in DOMAIN l : l[i] = x

\* The list holds exactly the active Systems, each once, by ascending priority.
ListOrdered ==
  /\ InList(systems) = ActiveSystems
  /\ Len(systems) = Cardinality(ActiveSystems)
  /\ \A i, j \in DOMAIN systems :
       i < j => sys[systems[i]].priority <= sys[systems[j]].priority

\* A step keeps the order of the Systems that stay in the list, puts a System
\* that enters it after those of its own priority, and changes nothing when
\* it is activate() on an active or deactivate() on an inactive System.
ListStep ==
  /\ \A x, y \in InList(systems) \cap InList(systems') :
       Pos(systems, x) < Pos(systems, y) => Pos(systems', x) < Pos(systems', y)
  /\ \A x \in InList(systems') \ InList(systems) :
       \A y \in InList(systems') \ {x} :
         sys'[y].priority = sys'[x].priority => Pos(systems', y) < Pos(systems', x)
  /\ \A x \in DOMAIN sys :
       /\ (sys[x].active /\ Activate(x)) => systems' = systems
       /\ (~sys[x].active /\ Deactivate(x)) => systems' = systems

\* C7: world.systems holds exactly the active Systems, each once, in ascending
\* priority, those of equal priority in the order of their latest activation;
\* activate() on an active and deactivate() on an inactive System change
\* nothing.
C7_SystemListOrdered == []ListOrdered /\ [][ListStep]_vars

\* Two Systems of one priority listed against their order of construction,
\* the later one having been deactivated and another activate() refused.
C7_Witness ==
  /\ \E x, y \in InList(systems) :
       /\ x > y
       /\ sys[x].priority = sys[y].priority
       /\ Pos(systems, x) < Pos(systems, y)
  /\ \E z \in DOMAIN sys : ~sys[z].active
  /\ ret = "false"

MinPriority(S) ==
  CHOOSE p \in {sys[x].priority : x \in S} : \A y \in S : p <= sys[y].priority
MaxPriority(S) ==
  CHOOSE p \in {sys[x].priority : x \in S} : \A y \in S : p >= sys[y].priority

\* C8: the lower bound derived from `after` is the least priority of the
\* Systems it names minus 0.1, the upper bound derived from `before` the
\* greatest plus 0.1, in whatever order they are listed.
C8_BoundsAreMinMax ==
  \A x \in DOMAIN sys :
    /\ RefSystems(sys[x].after) # {} =>
         System_determineAfterPriority(sys[x].after, NoPriority)
           = Num(MinPriority(RefSystems(sys[x].after)) - Eps)
    /\ RefSystems(sys[x].before) # {} =>
         System_determineBeforePriority(sys[x].before, NoPriority)
           = Num(MaxPriority(RefSystems(sys[x].before)) + Eps)

\* C9: with both bounds derived the constructor raises when the lower exceeds
\* the upper and otherwise takes their midpoint; with one bound it takes that
\* bound; with none, 0; zero bounds included.
C9_PriorityFromBounds ==
  [][\A after \in RefInputs, before \in RefInputs :
       NewSystem(NoComponents, NoMethods, Placement(after, before)) =>
         LET a == System_determineAfterPriority(after, NoPriority)
             b == System_determineBeforePriority(before, NoPriority)
             constructed == ret' = "object" /\ Len(sys') = Len(sys) + 1
         IN IF a # NoPriority /\ b # NoPriority
            THEN IF a[1] > b[1]
                 THEN ret' = ErrPriority /\ sys' = sys /\ systems' = systems
                 ELSE constructed /\ 2 * sys'[Len(sys')].priority = a[1] + b[1]
            ELSE IF a # NoPriority THEN constructed /\ sys'[Len(sys')].priority = a[1]
            ELSE IF b # NoPriority THEN constructed /\ sys'[Len(sys')].priority = b[1]
            ELSE constructed /\ sys'[Len(sys')].priority = 0]_vars

OnlyAfter(x) == RefSystems(sys[x].after) # {} /\ RefSystems(sys[x].before) = {}
OnlyBefore(x) == RefSystems(sys[x].before) # {} /\ RefSystems(sys[x].after) = {}

\* C10: a System constructed with only `after` has a priority strictly below
\* that of every System named and stands before each active one of them in
\* world.systems; with only `before`, strictly above and after each.
C10_PlacedRelativeToReferenced ==
  \A x \in DOMAIN sys :
    /\ OnlyAfter(x) =>
         \A y \in RefSystems(sys[x].after) :
           /\ sys[x].priority < sys[y].priority
           /\ ({x, y} \subseteq InList(systems) => Pos(systems, x) < Pos(systems, y))
    /\ OnlyBefore(x) =>
         \A y \in RefSystems(sys[x].before) :
           /\ sys[x].priority > sys[y].priority
           /\ ({x, y} \subseteq InList(systems) => Pos(systems, x) > Pos(systems, y))

\* One System placed with only `after` two Systems and one with only
\* `before`, each listed together with a System it names.
C10_Witness ==
  /\ \E x \in InList(systems) :
       /\ OnlyAfter(x)
       /\ Cardinality(RefSystems(sys[x].after)) = 2
       /\ RefSystems(sys[x].after) \cap InList(systems) # {}
  /\ \E x \in InList(systems) :
       /\ OnlyBefore(x)
       /\ RefSystems(sys[x].before) \cap InList(systems) # {}

\* The midpoints the model takes are exact.
MidpointsExact ==
  [][\A after \in RefInputs, before \in RefInputs :
       NewSystem(NoComponents, NoMethods, Placement(after, before)) =>
         LET a == System_determineAfterPriority(after, NoPriority)
             b == System_determineBeforePriority(before, NoPriority)
         IN (Truthy(a) /\ Truthy(b)) => (a[1] + b[1]) % 2 = 0]_vars


\* a/b = c/d, a/b <= c/d and a/b + c/d for quotients kept as pairs
FracEq(a, b) == a[1] * b[2] = b[1] * a[2]
FracLeq(a, b) == a[1] * b[2] <= b[1] * a[2]
FracPlus(a, b) == Frac(a[1] * b[2] + b[1] * a[2], a[2] * b[2])

\* C11: once stop() has returned and until start() is called again, no
\* earlyUpdate, calculus, update or draw callback of a System is invoked,
\* wherever stop() was called from, System callbacks included.
C11_NoCallbackAfterStop ==
  [][stopped => \A b \in Behaviours : ~Invoke(b)]_vars

\* The Systems of world.systems that define method m, in list order, and the
\* calls <<method, System, sub-step>> of one pass over them.
Defining(m) == SelectSeq(systems, LAMBDA x : m \in sys[x].methods)
CallsIn(m, i) == [k \in 1..Len(Defining(m)) |-> <<m, Defining(m)[k], i>>]

RECURSIVE SubstepCalls(_, _)
SubstepCalls(i, n) ==
  IF i >= n THEN <<>> ELSE CallsIn("calculus", i) \o SubstepCalls(i + 1, n)

\* The calls of a tick of n sub-steps, in order.
TickOrder(n) == CallsIn("earlyUpdate", 0) \o SubstepCalls(0, n) \o CallsIn("update", 0)

\* The calls the running pass has made.
Called == [k \in 1..Len(log) |-> <<log[k].method, log[k].system, log[k].i>>]

IsPrefix(a, b) == Len(a) <= Len(b) /\ SubSeq(b, 1, Len(a)) = a

\* C12: the callbacks of a tick are all the earlyUpdate calls in list order,
\* then for each sub-step in turn all the calculus calls in list order, then
\* all the update calls in list order, each System that defines the callback
\* once; no draw call falls inside a tick and no tick call inside a draw pass.
C12_TickOrder ==
  /\ run.kind = "update" =>
       /\ IsPrefix(Called, TickOrder(run.iterations))
       /\ run.phase = "end" => Called = TickOrder(run.iterations)
  /\ run.kind = "draw" => \A k \in 1..Len(log) : log[k].method = "draw"
  /\ run.kind = "idle" => log = <<>>

\* A finished tick of two sub-steps over two Systems, one of them without
\* earlyUpdate and update.
C12_Witness ==
  /\ run.kind = "update"
  /\ run.phase = "end"
  /\ run.iterations = 2
  /\ Len(systems) = 2
  /\ Len(log) = 6
  /\ Len(Defining("update")) = 1

\* The calculus calls the running tick has made on System x.
CalculusCalls(x) == SelectSeq(log, LAMBDA r : r.method = "calculus" /\ r.system = x)

RECURSIVE SumOfSteps(_)
SumOfSteps(calls) ==
  IF calls = <<>> THEN Frac(0, 1)
  ELSE FracPlus(Head(calls).deltaT, SumOfSteps(Tail(calls)))

\* ceil(deltaT / max_dt) for deltaT > 0
SubstepsFor(deltaT) ==
  CHOOSE n \in 1..deltaT : n * max_dt >= deltaT /\ (n - 1) * max_dt < deltaT

\* C13: in a tick with deltaT > 0 each System that defines calculus is called
\* n = ceil(deltaT / max_dt) times, each time with deltaT / n, which is at
\* most max_dt, and the n sub-steps add up to deltaT; with deltaT = 0
\* calculus is not called.
C13_Substeps ==
  (run.kind = "update" /\ run.phase = "end") =>
    \A x \in {y \in DOMAIN sys : "calculus" \in sys[y].methods /\ sys[y].active} :
      LET calls == CalculusCalls(x)
          deltaT == run.deltaT[1]
      IN IF deltaT > 0
         THEN /\ Len(calls) = SubstepsFor(deltaT)
              /\ \A k \in 1..Len(calls) :
                   /\ FracEq(calls[k].deltaT, Frac(deltaT, SubstepsFor(deltaT)))
                   /\ FracLeq(calls[k].deltaT, Frac(max_dt, 1))
              /\ FracEq(SumOfSteps(calls), Frac(deltaT, 1))
         ELSE Len(calls) = 0

\* A finished tick of deltaT = 3 ms: two sub-steps of 1.5 ms on a System.
C13_Witness ==
  /\ run.kind = "update"
  /\ run.phase = "end"
  /\ run.deltaT = Frac(3, 1)
  /\ \E x \in DOMAIN sys : Len(CalculusCalls(x)) = 2

\* C14: a tick's deltaT is the lesser of the real time since the tick before
\* (or since start()) and maxTimesBiggerThanMaxDt * max_dt, so that it has at
\* most maxTimesBiggerThanMaxDt sub-steps; it records the ratio of the two
\* when it clamps and 1 when not; and a frame's deltaT is its real interval
\* times the ratio the latest tick recorded (1 when none ran since start()).
C14_ClampAndScale ==
  [][/\ \A c \in 1..MaxStarts :
          FireInterval(c) =>
            LET real == clock - lastTick.at
                limit == maxTimesBiggerThanMaxDt * max_dt
            IN /\ run'.deltaT = Frac(IF real < limit THEN real ELSE limit, 1)
               /\ run'.iterations <= maxTimesBiggerThanMaxDt
               /\ FracEq(closure'[c].usedDivRealDeltaT,
                         IF real > limit THEN Frac(limit, real) ELSE One)
     /\ \A c \in 1..MaxStarts :
          FireFrame(c) =>
            FracEq(run'.deltaT,
                   Frac((clock - closure[c].drawBefore) * lastTick.ratio[1],
                        lastTick.ratio[2]))]_vars

\* C15: hasComponent(e, T), T being a key of e.components, T's name being in
\* e.componentNames and e being in the by-type set of T all agree, after any
\* calls; hasComponent(e, T) is true right after addComponent(e, T) and
\* false right after deleteComponent(e, T), whatever they returned.
C15_ComponentRecordsAgree ==
  /\ [](\A e \in created, t \in CTypes :
          /\ HasComponent(e, t) <=> t \in DOMAIN components[e]
          /\ HasComponent(e, t) <=> TypeName(t) \in componentNames[e]
          /\ HasComponent(e, t) <=>
               e \in MapOfSets_get(entitiesByComponentType, emptySet, t))
  /\ [][\A e \in Ents, t \in CTypes :
          /\ HasComponent(e, t)' \/ ~(\E v \in ValueInputs : AddComponent(e, t, v))
          /\ ~HasComponent(e, t)' \/ ~DeleteComponent(e, t)]_vars

\* Two entities hold one type, a third record differs, an entity with a
\* component is dead, and the last call returned false.
C15_Witness ==
  /\ \E t \in CTypes : Cardinality({e \in created : HasComponent(e, t)}) = 2
  /\ \E e \in created, t \in CTypes : ~HasComponent(e, t)
  /\ \E e \in created \ entities : DOMAIN components[e] # {}
  /\ ret = "false"

Chars(name) == {name[i] : i \in 1..Len(name)}

\* C17: a definition with a string name raises exactly when the name is
\* already registered, or has a ',', or the default value is a non-null
\* object; otherwise it registers the type; a definition that raises
\* registers nothing.
C17_DefineRaisesExactly ==
  [][\A name \in DefineNames, d \in DefineDefaultInputs :
       Define(Str(name), d) =>
         IF name \in Registered \/ "," \in Chars(name) \/ IsObject(d)
         THEN ret' \in Thrown /\ registry' = registry
         ELSE ret' = "object" /\ name \in Registered']_vars

\* C18: die() on an entity that die() was called on before does not raise
\* and leaves the entity set, the indexes, the query sets and the system
\* list as they were, for named and unnamed entities.
C18_SecondDieChangesNothing ==
  [][\A e \in Dead :
       Die(e) => /\ ret' \notin Thrown
                 /\ UNCHANGED <<entityVars, queryVars, systemVars>>]_vars

\* A named and an unnamed entity are dead, one of them still in a by-type
\* set, and the last call returned undefined.
C18_Witness ==
  /\ \E e \in Dead : entName[e] # Undefined
  /\ \E e \in Dead : entName[e] = Undefined
  /\ \E e \in Dead : e \in Members(entitiesByComponentType)
  /\ ret = "undefined"

\* C19: after any calls of start() and stop(), outside or inside the
\* callbacks, there is at most one interval timer and one pending frame
\* request, and the World holds their handles; stop() does not raise and
\* leaves no driver scheduled, before any start() and twice in a row too.
C19_DriversHeld ==
  /\ [](run.kind = "idle" =>
          /\ Cardinality(intervals) <= 1
          /\ Cardinality(frames) <= 1
          /\ intervals \subseteq {updateId}
          /\ frames \subseteq {drawId})
  /\ [][Stop => /\ ret' \notin Thrown
                /\ intervals' = {}
                /\ frames' = {}]_vars

\* C20: for every live entity e and every multi-type key k in the cache, e is
\* in the set stored for k exactly when e's component names include every
\* name of k.
C20_LiveMembersExact ==
  \A e \in entities, k \in DOMAIN cachedQueries :
    e \in MapOfSets_get(queries, emptySet, k)
      <=> \A i \in 1..Len(Split(k)) : Split(k)[i] \in componentNames[e]

\* The key is cached again after its last handle was destroyed; a live
\* entity is in its set, and so is a dead one.
C20_Witness ==
  /\ \E h1, h2 \in DOMAIN qh :
       /\ h1 < h2
       /\ qh[h1].destroyed /\ qh[h1].key # NoKey
       /\ ~qh[h2].destroyed /\ qh[h2].key = qh[h1].key
       /\ qh[h2].key \in DOMAIN cachedQueries
       /\ \E e \in entities : e \in MapOfSets_get(queries, emptySet, qh[h2].key)
       /\ \E e \in Dead : e \in MapOfSets_get(queries, emptySet, qh[h2].key)

\* C21: a System construction that raises because its after and before
\* bounds conflict leaves the system list, the cached query keys with their
\* reference counts, and every query entity set as they were before the call,
\* whether or not the construction was given a multi-type query.
C21_RaisingConstructionChangesNothing ==
  [][\A c \in PlacedQueryInputs, x \in DOMAIN sys, y \in DOMAIN sys :
       \/ ret' # ErrPriority
       \/ /\ systems' = systems
          /\ cachedQueries' = cachedQueries
          /\ queries' = queries
       \/ ~NewSystem(c, NoMethods, Placement(OneSystem(x), OneSystem(y)))]_vars

\* C22: in a MapOfSets, after any sequence of set and delete calls, no key
\* is mapped to an empty set, and the shared empty set has no members;
\* set(key, value) of a value already in the key's set changes nothing;
\* delete(key, value) of the last member of a key's set removes the key;
\* delete(key, value) for an absent key or a value not in the key's set
\* returns false and changes nothing; get(key) for an absent key returns the
\* empty set and does not create the key.
C22_IndexSetSemantics ==
  /\ [](\A key \in DOMAIN queries : queries[key] # {})
  /\ [](emptySet = {})
  /\ [][\A key \in IndexKeys, value \in Ents :
         /\ (value \in MapOfSets_get(queries, emptySet, key) /\ Index_set(key, value)) =>
              /\ queries' = queries
              /\ emptySet' = emptySet
         /\ (Has(queries, key) /\ queries[key] = {value} /\ Index_delete(key, value)) =>
              /\ ret' = "true"
              /\ ~Has(queries', key)
         /\ (value \notin MapOfSets_get(queries, emptySet, key) /\ Index_delete(key, value)) =>
              /\ ret' = "false"
              /\ queries' = queries
              /\ emptySet' = emptySet
         /\ (~Has(queries, key) /\ Index_get(key)) =>
              /\ ret' = "emptySet"
              /\ MapOfSets_get(queries', emptySet', key) = {}
              /\ queries' = queries]_vars

\* delete() has just removed the last key of a map that held keys.
C22_Witness ==
  /\ ret = "true"
  /\ queries = EmptyMap

=============================================================================
